---- MODULE Spec2Model ----
(***************************************************************************)
(* Model of the DID parser of src/src/lib.rs (crate did_parser).  The      *)
(* parser is written with the nom 5 combinators (separated_list, named!,   *)
(* do_parse!, errors as (&str, ErrorKind)), which are modelled as nom 5    *)
(* defines them.  A string is a sequence of characters, a character is its *)
(* Unicode code point (a natural number), so that the `c as u8` casts of   *)
(* the character classes are modelled as they compute.                     *)
(*                                                                         *)
(* Did::parse is a nom `tuple` of nine sub-parsers followed by a check of  *)
(* the remainder; every element of the tuple is one action of the model.   *)
(* Did::is_valid_base_did is one action.                                   *)
(***************************************************************************)
EXTENDS Naturals, Sequences, FiniteSets, TLC

VARIABLES
    input,   \* the &str handed to Did::parse and Did::is_valid_base_did
    form,    \* how the input was written down (the components it was built of)
    pc,      \* the element of the tuple of Did::parse that runs next
    rest,    \* the unconsumed input of Did::parse
    acc,     \* the outputs of the tuple elements that have run
    ret,     \* the IResult returned by Did::parse
    valid    \* the bool returned by Did::is_valid_base_did

vars == <<input, form, pc, rest, acc, ret, valid>>

----------------------------------------------------------------------------
(* Characters *)

\* The code point of a character written as a one-character string.
Ch(c) ==
    CASE c = "#" -> 35  [] c = "&" -> 38  [] c = "*" -> 42  [] c = "-" -> 45
      [] c = "." -> 46  [] c = "/" -> 47  [] c = "1" -> 49  [] c = "2" -> 50
      [] c = ":" -> 58  [] c = ";" -> 59  [] c = "=" -> 61  [] c = "?" -> 63
      [] c = "@" -> 64  [] c = "A" -> 65  [] c = "B" -> 66  [] c = "_" -> 95
      [] c = "a" -> 97  [] c = "b" -> 98  [] c = "d" -> 100 [] c = "f" -> 102
      [] c = "i" -> 105 [] c = "j" -> 106 [] c = "k" -> 107 [] c = "m" -> 109
      [] c = "q" -> 113 [] c = "r" -> 114 [] c = "s" -> 115 [] c = "v" -> 118
      [] c = "w" -> 119
      [] c = "U+0161" -> 353   \* LATIN SMALL LETTER S WITH CARON, 0x161

\* The string whose characters are written in cs.
Str(cs) == [n \in 1..Len(cs) |-> Ch(cs[n])]

\* `c as u8`: a char cast to u8 keeps the low eight bits of the code point.
AsU8(c) == c % 256

\* nom::character::is_digit(chr: u8)
is_digit(chr) == chr >= 48 /\ chr <= 57

\* nom::character::is_alphabetic(chr: u8)
is_alphabetic(chr) == (chr >= 65 /\ chr <= 90) \/ (chr >= 97 /\ chr <= 122)

\* nom::character::is_alphanumeric(chr: u8)
is_alphanumeric(chr) == is_alphabetic(chr) \/ is_digit(chr)

\* fn is_lowercase(char: u8): char >= 0x61 && char <= 0x7a
is_lowercase(char) == char >= 97 /\ char <= 122

\* The closures handed to take_while, each over a char c.
MethodChar(c) == is_lowercase(AsU8(c)) \/ is_digit(AsU8(c))
\* Mutants of IdChar: the class without its punctuation, and the class with
\* the ':' of the grammar's multi-part identifiers.
IdChar_NoPunct(c) == is_alphanumeric(AsU8(c))
IdChar_WithColon(c) ==
    is_alphanumeric(AsU8(c)) \/ c = Ch(".") \/ c = Ch("-") \/ c = Ch("_") \/ c = Ch(":")
IdChar(c) == is_alphanumeric(AsU8(c)) \/ c = Ch(".") \/ c = Ch("-") \/ c = Ch("_")
\* Mutant of ParamChar: the '-' forgotten.
ParamChar_NoDash(c) ==
    is_alphanumeric(AsU8(c)) \/ c = Ch(".") \/ c = Ch("_") \/ c = Ch(":")
ParamChar(c) ==
    is_alphanumeric(AsU8(c)) \/ c = Ch(".") \/ c = Ch("-") \/ c = Ch("_") \/ c = Ch(":")
PathChar(c) == is_alphanumeric(AsU8(c))
\* Mutant of FragChar: the sub-delimiters ';', '=' and '&' of an RFC 3986
\* fragment accepted too.
FragChar_SubDelims(c) ==
    \/ is_alphanumeric(AsU8(c)) \/ c = Ch("/") \/ c = Ch("?") \/ c = Ch(":") \/ c = Ch("@")
    \/ c = Ch(";") \/ c = Ch("=") \/ c = Ch("&")
FragChar(c) ==
    is_alphanumeric(AsU8(c)) \/ c = Ch("/") \/ c = Ch("?") \/ c = Ch(":") \/ c = Ch("@")

----------------------------------------------------------------------------
(* nom's IResult and the combinators the parser is built of *)

Ok(r, v) == [kind |-> "Ok", rest |-> r, val |-> v]
Error == [kind |-> "Error", rest |-> <<>>, val |-> <<>>]
Incomplete == [kind |-> "Incomplete", rest |-> <<>>, val |-> <<>>]

\* Option: None is the empty sequence, Some(v) the sequence of v alone.
None == <<>>
Some(v) == <<v>>

Drop(s, n) == SubSeq(s, n + 1, Len(s))

\* bytes::complete::tag: the input starts with t, or Err::Error.
tag(t, s) ==
    IF Len(s) >= Len(t) /\ SubSeq(s, 1, Len(t)) = t
    THEN Ok(Drop(s, Len(t)), t)
    ELSE Error

\* character::complete::char: Err::Error at the end of the input.
char_complete(c, s) ==
    IF s # <<>> /\ s[1] = c THEN Ok(Tail(s), c) ELSE Error

\* char!, the macro: character::streaming::char, Err::Incomplete at the end
\* of the input.
char_streaming(c, s) ==
    IF s = <<>> THEN Incomplete
    ELSE IF s[1] = c THEN Ok(Tail(s), c) ELSE Error

\* The closure a take_while was given, by the name of its class.
InClass(class, c) ==
    CASE class = "method" -> MethodChar(c)
      [] class = "id" -> IdChar(c)
      [] class = "param" -> ParamChar(c)
      [] class = "path" -> PathChar(c)
      [] class = "frag" -> FragChar(c)

\* bytes::complete::take_while: the longest prefix whose characters are in
\* the class; it never fails and may be empty.
RunLen(class, s) ==
    CHOOSE n \in 0..Len(s) :
        /\ \A k \in 1..n : InClass(class, s[k])
        /\ n = Len(s) \/ ~InClass(class, s[n + 1])

\* The run of n characters taken, and the input after it.
split_at(s, n) == Ok(Drop(s, n), SubSeq(s, 1, n))

take_while(class, s) == split_at(s, RunLen(class, s))

\* combinator::complete: Err::Incomplete becomes Err::Error.
complete(r) == IF r.kind = "Incomplete" THEN Error ELSE r

\* combinator::opt on input s: Err::Error becomes Ok((s, None)).
opt(r, s) ==
    CASE r.kind = "Ok" -> Ok(r.rest, Some(r.val))
      [] r.kind = "Error" -> Ok(s, None)
      [] OTHER -> r

----------------------------------------------------------------------------
(* The sub-parsers *)

\* fn parse_param
parse_param(value) == take_while("param", value)

\* Mutant of parse_key_value_pair: the '=' and the value optional, as in
\* param = param-name [ "=" param-value ].
parse_key_value_pair_OptionalEq(value) ==
    LET key == take_while("param", value)
        eq == char_streaming(Ch("="), key.rest)
        val == take_while("param", eq.rest)
    IN  IF eq.kind # "Ok" THEN Ok(key.rest, [key |-> key.val, val |-> <<>>])
        ELSE Ok(val.rest, [key |-> key.val, val |-> val.val])

\* named!(parse_key_value_pair ...): key, then char!('='), then val.
\* do_parse! nests its steps: each runs on what the one before left, and
\* the first error is the result.
pair_of(key, val) == Ok(val.rest, [key |-> key.val, val |-> val.val])
pair_after_eq(key, eq) ==
    IF eq.kind # "Ok" THEN eq ELSE pair_of(key, parse_param(eq.rest))
pair_after_key(key) == pair_after_eq(key, char_streaming(Ch("="), key.rest))
parse_key_value_pair(value) == pair_after_key(parse_param(value))

\* fn parse_method_name
parse_method_name(value) ==
    IF Len(value) = 0 \/ (value # <<>> /\ value[1] = Ch(":"))
    THEN Error
    ELSE take_while("method", value)

\* fn parse_did_identifier
parse_did_identifier(value) ==
    IF Len(value) = 0 THEN Error ELSE take_while("id", value)

\* The element parser of a separated_list: a key/value pair, or a path
\* segment.
Element(what, s) ==
    IF what = "pair" THEN parse_key_value_pair(s) ELSE take_while("path", s)

\* multi::separated_list, the loop after the first element: i is the input
\* left, res the elements so far.  A separator, or a separator and an
\* element, that leave the input as it was are Err::Error(SeparatedList).
RECURSIVE separated_list_loop(_, _, _, _)
separated_list_loop(sep, what, i, res) ==
    LET s == char_complete(sep, i) IN
    IF s.kind = "Error" THEN Ok(i, res)
    ELSE IF s.rest = i THEN Error
    ELSE LET e == Element(what, s.rest) IN
         CASE e.kind = "Error" -> Ok(i, res)
           [] e.kind = "Incomplete" -> e
           [] e.rest = i -> Error
           [] OTHER -> separated_list_loop(sep, what, e.rest, Append(res, e.val))

\* multi::separated_list(char(sep), element): an element that fails with
\* Err::Error ends the list, one that consumes nothing as the first element
\* is Err::Error(SeparatedList), any other error is returned as it is.
separated_list(sep, what, i) ==
    LET e == Element(what, i) IN
    CASE e.kind = "Error" -> Ok(i, <<>>)
      [] e.kind = "Incomplete" -> e
      [] e.rest = i -> Error
      [] OTHER -> separated_list_loop(sep, what, e.rest, <<e.val>>)

\* |v: Vec<_>| v.into_iter().collect() into a HashMap: a later pair with the
\* same key replaces the earlier one.
RECURSIVE collect_map(_)
collect_map(v) ==
    IF v = <<>> THEN <<>>
    ELSE LET last == v[Len(v)] IN
         (last.key :> last.val) @@ collect_map(SubSeq(v, 1, Len(v) - 1))

\* sequence::preceded(first, second): the result of second, run on what
\* first left, unless first failed.
preceded(first, second) == IF first.kind # "Ok" THEN first ELSE second

\* combinator::map with the closure of the ';' and '?' parsers.
map_collect(r) == IF r.kind = "Ok" THEN Ok(r.rest, collect_map(r.val)) ELSE r

\* fn parse_method_specfic_uri
parse_method_specfic_uri(value) ==
    LET semi == tag(Str(<<";">>), value) IN
    map_collect(preceded(semi, separated_list(Ch(";"), "pair", semi.rest)))

\* fn parse_path_uri: the closure of its map collects the Vec into a Vec.
parse_path_uri(value) ==
    LET slash == tag(Str(<<"/">>), value) IN
    preceded(slash, separated_list(Ch("/"), "segment", slash.rest))

\* fn parse_query_uri
parse_query_uri(s) ==
    LET mark == tag(Str(<<"?">>), s) IN
    map_collect(preceded(mark, separated_list(Ch("&"), "pair", mark.rest)))

\* fn parse_fragment_uri
parse_fragment_uri(s) ==
    LET hash == tag(Str(<<"#">>), s) IN
    preceded(hash, take_while("frag", hash.rest))

----------------------------------------------------------------------------
(* Did::parse, one action for each element of its tuple *)

NoDid == [method |-> <<>>, id |-> <<>>, method_params |-> None,
          path |-> None, query |-> None, frag |-> None]

Pending == [tag |-> "Pending", rest |-> <<>>, did |-> None]

\* Err(kind) => Err(kind): the tuple stops at its first failing element.
Fail ==
    /\ pc' = "done"
    /\ ret' = [tag |-> "Err", rest |-> <<>>, did |-> None]
    /\ UNCHANGED <<input, form, rest, acc, valid>>

\* An element of the tuple with result r: on Ok the cursor moves on and the
\* output is kept in the field of that element (none for a tag), on an
\* error the tuple stops.
Step(r, next, field) ==
    IF r.kind = "Ok"
    THEN /\ pc' = next
         /\ rest' = r.rest
         /\ acc' = IF field = "" THEN acc ELSE [acc EXCEPT ![field] = r.val]
         /\ UNCHANGED <<input, form, ret, valid>>
    ELSE Fail

TagDid ==
    /\ pc = "did"
    /\ Step(tag(Str(<<"d", "i", "d">>), rest), "colon1", "")

TagColon1 ==
    /\ pc = "colon1"
    /\ Step(tag(Str(<<":">>), rest), "method", "")

MethodName ==
    /\ pc = "method"
    /\ Step(parse_method_name(rest), "colon2", "method")

TagColon2 ==
    /\ pc = "colon2"
    /\ Step(tag(Str(<<":">>), rest), "id", "")

DidIdentifier ==
    /\ pc = "id"
    /\ Step(parse_did_identifier(rest), "params", "id")

OptMethodSpecificUri ==
    /\ pc = "params"
    /\ Step(opt(complete(parse_method_specfic_uri(rest)), rest), "path", "method_params")

OptPathUri ==
    /\ pc = "path"
    /\ Step(opt(complete(parse_path_uri(rest)), rest), "query", "path")

OptQueryUri ==
    /\ pc = "query"
    /\ Step(opt(complete(parse_query_uri(rest)), rest), "frag", "query")

OptFragmentUri ==
    /\ pc = "frag"
    /\ Step(opt(complete(parse_fragment_uri(rest)), rest), "check", "frag")

\* Mutant of ParseResult: the check of the remainder left out.
ParseResult_Unchecked(r, a) == [tag |-> "Ok", rest |-> r, did |-> Some(a)]

\* The Ok arm of the match: `if rest.len() > 0` is an Err, else the Did.
ParseResult(r, a) ==
    IF Len(r) > 0
    THEN [tag |-> "Err", rest |-> <<>>, did |-> None]
    ELSE [tag |-> "Ok", rest |-> r, did |-> Some(a)]

Finish ==
    /\ pc = "check"
    /\ pc' = "done"
    /\ ret' = ParseResult(rest, acc)
    /\ UNCHANGED <<input, form, rest, acc, valid>>

----------------------------------------------------------------------------
(* Did::is_valid_base_did *)

\* Mutant of is_valid_base_did: the check of the remainder left out.
is_valid_base_did_Unchecked(value) ==
    LET did == tag(Str(<<"d", "i", "d">>), value)
        colon1 == tag(Str(<<":">>), did.rest)
        method == preceded(colon1, parse_method_name(colon1.rest))
        colon2 == tag(Str(<<":">>), method.rest)
        id == preceded(colon2, parse_did_identifier(colon2.rest))
    IN  did.kind = "Ok" /\ method.kind = "Ok" /\ id.kind = "Ok"

is_valid_base_did(value) ==
    LET did == tag(Str(<<"d", "i", "d">>), value)
        colon1 == tag(Str(<<":">>), did.rest)
        method == preceded(colon1, parse_method_name(colon1.rest))
        colon2 == tag(Str(<<":">>), method.rest)
        id == preceded(colon2, parse_did_identifier(colon2.rest))
    IN  /\ did.kind = "Ok"
        /\ method.kind = "Ok"
        /\ id.kind = "Ok"
        /\ ~(Len(id.rest) > 0)

\* The two entry points share no state: the model calls the validator on the
\* input once Did::parse has returned.
IsValidBaseDid ==
    /\ pc = "done"
    /\ valid = "unset"
    /\ valid' = IF is_valid_base_did(input) THEN "true" ELSE "false"
    /\ UNCHANGED <<input, form, pc, rest, acc, ret>>

----------------------------------------------------------------------------
(* Inputs *)

MaxTail == 3
MaxPairs == 2
MaxSegs == 3
MaxBlocks == 3

Start(i, f) ==
    /\ input = i
    /\ form = f
    /\ pc = "did"
    /\ rest = i
    /\ acc = NoDid
    /\ ret = Pending
    /\ valid = "unset"

\* Arbitrary input: a head followed by every string of at most MaxTail
\* characters, over a representative of every class the parser tells apart
\* and one character above U+00FF.
Alphabet ==
    {Ch("a"), Ch("A"), Ch("1"), Ch(":"), Ch(";"), Ch("/"), Ch("?"), Ch("#"),
     Ch("="), Ch("U+0161")}

Heads == {<<>>, Str(<<"d", "i", "d", ":">>),
          Str(<<"d", "i", "d", ":", "a", ":">>),
          Str(<<"d", "i", "d", ":", "a", ":", "A", ";", "a", "=", "1">>)}

Tails == UNION {[1..n -> Alphabet] : n \in 0..MaxTail}

Raw == [shape |-> "raw", m |-> <<>>, id |-> <<>>, blocks |-> <<>>]

Init == \E h \in Heads, t \in Tails : Start(h \o t, Raw)

\* Input written from its components: did:<m>:<id> and then blocks.  A
\* block is [kind, items]: the pairs of a ';' or '?' block, the segments of
\* a '/' block, the text of a '#' block.  An item is [key, val, eq], written
\* key=val, or key alone when eq is FALSE: a name without '=', a segment, the
\* text of a fragment.
Pair(k, v) == [key |-> k, val |-> v, eq |-> TRUE]
Name(k) == [key |-> k, val |-> <<>>, eq |-> FALSE]
Block(kind, items) == [kind |-> kind, items |-> items]

RECURSIVE Join(_, _)
Join(texts, sep) ==
    IF texts = <<>> THEN <<>>
    ELSE IF Len(texts) = 1 THEN texts[1]
    ELSE texts[1] \o <<sep>> \o Join(Tail(texts), sep)

PairText(p) == IF p.eq THEN p.key \o <<Ch("=")>> \o p.val ELSE p.key

BlockText(b) ==
    CASE b.kind = "params" ->
            <<Ch(";")>> \o Join([n \in 1..Len(b.items) |-> PairText(b.items[n])], Ch(";"))
      [] b.kind = "query" ->
            <<Ch("?")>> \o Join([n \in 1..Len(b.items) |-> PairText(b.items[n])], Ch("&"))
      [] b.kind = "path" ->
            <<Ch("/")>> \o Join([n \in 1..Len(b.items) |-> PairText(b.items[n])], Ch("/"))
      [] b.kind = "frag" -> <<Ch("#")>> \o PairText(b.items[1])

RECURSIVE BlocksText(_)
BlocksText(bs) ==
    IF bs = <<>> THEN <<>> ELSE BlockText(bs[1]) \o BlocksText(Tail(bs))

Format(f) ==
    Str(<<"d", "i", "d", ":">>) \o f.m \o <<Ch(":")>> \o f.id \o BlocksText(f.blocks)

Url(m, id, blocks) == [shape |-> "url", m |-> m, id |-> id, blocks |-> blocks]

Lists(S, lo, hi) == UNION {[1..n -> S] : n \in lo..hi}

\* DID URLs: the four blocks in the grammar's order, each present or not.
UrlParamPairs ==
    {Pair(Str(<<"k">>), Str(<<"v", "_">>)), Pair(Str(<<"j", ".">>), Str(<<"1">>)),
     Pair(Str(<<"k">>), Str(<<"1">>))}
UrlQueryPairs ==
    {Pair(Str(<<"q">>), Str(<<"w", "-">>)), Pair(Str(<<"r">>), Str(<<"A">>))}
UrlSegments == {Name(<<>>), Name(Str(<<"s">>)), Name(Str(<<"B", "2">>))}
UrlFragments == {Name(Str(<<"f", "B", "2">>))}

Optional(kind, itemss) == {<<>>} \cup {<<Block(kind, items)>> : items \in itemss}

UrlBlocks ==
    {p \o s \o q \o f :
        p \in Optional("params", Lists(UrlParamPairs, 1, MaxPairs)),
        s \in Optional("path", Lists(UrlSegments, 1, MaxSegs)),
        q \in Optional("query", Lists(UrlQueryPairs, 1, MaxPairs)),
        f \in Optional("frag", {<<t>> : t \in UrlFragments})}

\* Bare DIDs: method names and identifiers, well-formed and not.
BareMethods ==
    {<<>>, Str(<<"m">>), Str(<<"a", "1">>), Str(<<"1">>), Str(<<"A">>), Str(<<"m", "B">>)}
BareIds ==
    {<<>>, Str(<<"A">>), Str(<<"a", ".", "-", "_", "1">>), Str(<<"a", ":", "b">>),
     Str(<<":", "B">>), Str(<<"a", ":">>), Str(<<"a", "*">>)}

UrlForms ==
    {Url(m, id, <<>>) : m \in BareMethods, id \in BareIds}
    \cup {Url(Str(<<"m", "1">>), Str(<<"A", ".", "-", "_", "1">>), bs) : bs \in UrlBlocks}

InitUrl == \E f \in UrlForms : Start(Format(f), f)

\* Blocks in any order, any number of times, the malformed ones included: a
\* trigger with no pair, a name without '=' first, last or alone.
SeqGood == Pair(Str(<<"k">>), Str(<<"v">>))
SeqGood2 == Pair(Str(<<"q">>), Str(<<"w">>))
SeqBad == Name(Str(<<"j">>))
SeqPairLists ==
    {<<>>, <<SeqGood>>, <<SeqBad>>, <<SeqGood, SeqBad>>, <<SeqBad, SeqGood>>,
     <<SeqGood, SeqGood2>>}
SeqBlocks ==
    {Block("params", ps) : ps \in SeqPairLists}
    \cup {Block("query", ps) : ps \in SeqPairLists}
    \cup {Block("path", <<Name(Str(<<"s">>))>>), Block("frag", <<Name(Str(<<"f">>))>>)}

SeqForms ==
    {Url(Str(<<"m">>), Str(<<"a">>), bs) : bs \in Lists(SeqBlocks, 0, MaxBlocks)}

InitSeq == \E f \in SeqForms : Start(Format(f), f)

Next ==
    \/ TagDid
    \/ TagColon1
    \/ MethodName
    \/ TagColon2
    \/ DidIdentifier
    \/ OptMethodSpecificUri
    \/ OptPathUri
    \/ OptQueryUri
    \/ OptFragmentUri
    \/ Finish
    \/ IsValidBaseDid

Spec == Init /\ [][Next]_vars
SpecUrl == InitUrl /\ [][Next]_vars
SpecSeq == InitSeq /\ [][Next]_vars

----------------------------------------------------------------------------
(* The character classes and input shapes the claims are stated over, in   *)
(* ASCII as the grammar writes them.                                       *)

Lower(c) == c \in 97..122
Upper(c) == c \in 65..90
Digit(c) == c \in 48..57
AlphaNum(c) == Lower(c) \/ Upper(c) \/ Digit(c)
IdClass(c) == AlphaNum(c) \/ c \in {Ch("."), Ch("-"), Ch("_")}

All(P(_), s) == \A n \in 1..Len(s) : P(s[n])
Run(P(_), s) == s # <<>> /\ All(P, s)
MethodClass(c) == Lower(c) \/ Digit(c)

Done == pc = "done"
Parsed == ret.tag = "Ok"
Failed == ret.tag = "Err"
TheDid == ret.did[1]

IsUrl == form.shape = "url"
Kinds == [n \in 1..Len(form.blocks) |-> form.blocks[n].kind]
IsPairs(b) == b.kind \in {"params", "query"}

\* C1: Did::parse returns Ok only with the whole input consumed: the
\* remainder of an Ok is empty, and when text is left after the last
\* attempted block the result is an error that carries no Did.
C1_FullConsumption ==
    /\ Parsed => ret.rest = <<>> /\ rest = <<>> /\ ret.did # None
    /\ Done /\ rest # <<>> => Failed /\ ret.did = None

\* C1, its case: the cascade ran to its end, a block was consumed, text was
\* left and the parse failed.
C1_Witness ==
    /\ Done /\ Failed
    /\ acc.method_params # None /\ acc.frag # None
    /\ rest # <<>>

\* C2: is_valid_base_did(input) is true exactly when parse(input) succeeds
\* with method_params, path, query and frag all absent.
C2_BaseDidEquivalence ==
    valid # "unset" =>
        ((valid = "true") <=>
            (/\ Parsed
             /\ TheDid.method_params = None /\ TheDid.path = None
             /\ TheDid.query = None /\ TheDid.frag = None))

\* C2, its case: the parse succeeded with a block present and the validator
\* said false.
C2_Witness == valid = "false" /\ Parsed /\ TheDid.path # None

\* The mapping a block of well-formed pairs with distinct keys denotes.
MapOf(pairs) ==
    [k \in {pairs[n].key : n \in 1..Len(pairs)} |->
        (CHOOSE p \in {pairs[n] : n \in 1..Len(pairs)} : p.key = k).val]

DistinctKeys(pairs) ==
    \A a, b \in 1..Len(pairs) : pairs[a].key = pairs[b].key => a = b

HasBlock(kind) == \E n \in 1..Len(form.blocks) : form.blocks[n].kind = kind
TheBlock(kind) == CHOOSE b \in {form.blocks[n] : n \in 1..Len(form.blocks)} : b.kind = kind

\* The input is did:M:ID;k1=v1;...;kn=vn/s1/.../sm?q1=w1&...&qp=wp#F with every
\* part in its class and every block present at most once, in this order.
C3_Shape ==
    /\ IsUrl
    /\ Run(MethodClass, form.m)
    /\ Run(IdClass, form.id)
    /\ \A a, b \in 1..Len(form.blocks) :
          a < b => <<Kinds[a], Kinds[b]>> \in
                      {<<"params", "path">>, <<"params", "query">>, <<"params", "frag">>,
                       <<"path", "query">>, <<"path", "frag">>, <<"query", "frag">>}
    /\ \A n \in 1..Len(form.blocks) :
          LET b == form.blocks[n] IN
          CASE IsPairs(b) ->
                  /\ b.items # <<>>
                  /\ DistinctKeys(b.items)
                  /\ \A k \in 1..Len(b.items) :
                        /\ b.items[k].eq
                        /\ Run(IdClass, b.items[k].key)
                        /\ Run(IdClass, b.items[k].val)
            [] b.kind = "path" ->
                  b.items # <<>> /\ \A k \in 1..Len(b.items) : Run(AlphaNum, b.items[k].key)
            [] OTHER -> Run(AlphaNum, b.items[1].key)

Texts(items) == [n \in 1..Len(items) |-> items[n].key]

C3_Expected ==
    [method |-> form.m,
     id |-> form.id,
     method_params |->
        IF HasBlock("params") THEN Some(MapOf(TheBlock("params").items)) ELSE None,
     path |-> IF HasBlock("path") THEN Some(Texts(TheBlock("path").items)) ELSE None,
     query |->
        IF HasBlock("query") THEN Some(MapOf(TheBlock("query").items)) ELSE None,
     frag |-> IF HasBlock("frag") THEN Some(TheBlock("frag").items[1].key) ELSE None]

\* C3: on an input did:M:ID;k1=v1;...;kn=vn/s1/.../sm?q1=w1&...&qp=wp#F whose
\* parts are in their classes (keys distinct within a block), parse succeeds
\* and returns method M, id ID, the mapping ki -> vi, the segments in input
\* order, the mapping qi -> wi and the fragment F; a block left out of the
\* input is an absent field and the other fields are the same.
C3_Components == Done /\ C3_Shape => Parsed /\ TheDid = C3_Expected

\* C3, its case: all four blocks, two pairs in each mapping, two segments.
C3_Witness ==
    /\ Done /\ C3_Shape /\ Parsed
    /\ Len(form.blocks) = 4
    /\ Len(TheBlock("params").items) = 2
    /\ Len(TheBlock("path").items) = 2
    /\ Len(TheBlock("query").items) = 2
    /\ TheDid.path[1][1] # TheDid.path[1][2]

\* The input is a bare DID did:<method>:<id>, the method a non-empty run of
\* [a-z0-9] and the id a run of [A-Za-z0-9._-].
C4_Shape ==
    /\ IsUrl /\ form.blocks = <<>>
    /\ Run(MethodClass, form.m)
    /\ All(IdClass, form.id)

C5_MethodLowercaseAscii ==
    Parsed => Run(MethodClass, TheDid.method)

\* The input is did:<method>:<a>:<b>, a and b runs of identifier characters.
C6_Shape ==
    /\ IsUrl /\ form.blocks = <<>>
    /\ Run(MethodClass, form.m)
    /\ \E n \in 1..Len(form.id) :
          /\ form.id[n] = Ch(":")
          /\ All(IdClass, SubSeq(form.id, 1, n - 1))
          /\ All(IdClass, SubSeq(form.id, n + 1, Len(form.id)))

WellFormedBlock(b) ==
    CASE IsPairs(b) ->
            /\ b.items # <<>>
            /\ \A k \in 1..Len(b.items) :
                  b.items[k].eq /\ b.items[k].key # <<>> /\ b.items[k].val # <<>>
      [] b.kind = "path" ->
            b.items # <<>> /\ \A k \in 1..Len(b.items) : b.items[k].key # <<>>
      [] OTHER -> b.items[1].key # <<>>

\* The text of a '#' block runs to the end of the input through '/' and '?':
\* a block written after it, up to the first character no fragment holds,
\* is fragment text.
FragBefore(n) == \E k \in 1..(n - 1) : Kinds[k] = "frag"
FragBetween(a, b) == \E k \in (a + 1)..(b - 1) : Kinds[k] = "frag"

\* A block after a block that comes later in the order ; / ? #, with no
\* '#' block between the two (text after a '#' is fragment text, which is
\* why /seg after #frag is not in the list).
C7_Reversed ==
    {<<"path", "params">>, <<"query", "params">>, <<"query", "path">>,
     <<"frag", "params">>, <<"frag", "query">>}

C7_OutOfOrder ==
    \E a, b \in 1..Len(form.blocks) :
        /\ a < b
        /\ <<Kinds[a], Kinds[b]>> \in C7_Reversed
        /\ WellFormedBlock(form.blocks[a]) /\ WellFormedBlock(form.blocks[b])
        /\ ~FragBetween(a, b)

\* The text of the input after did:<method>:<id> splits into the text of the
\* present blocks, in the order ; / ? #.
C7_Piece(lo, hi, trigger, field) ==
    IF field = None THEN lo = hi ELSE lo < hi /\ input[lo + 1] = Ch(trigger)

C7_InOrder ==
    LET base == 3 + 1 + Len(TheDid.method) + 1 + Len(TheDid.id)
        n == Len(input)
    IN  \E a, b, c \in base..n :
            /\ a <= b /\ b <= c
            /\ C7_Piece(base, a, ";", TheDid.method_params)
            /\ C7_Piece(a, b, "/", TheDid.path)
            /\ C7_Piece(b, c, "?", TheDid.query)
            /\ C7_Piece(c, n, "#", TheDid.frag)

C8_NameWithoutEq ==
    \E n \in 1..Len(form.blocks) :
        /\ IsPairs(form.blocks[n])
        /\ ~FragBefore(n)
        /\ \E k \in 1..Len(form.blocks[n].items) :
              ~form.blocks[n].items[k].eq /\ form.blocks[n].items[k].key # <<>>

C9_EmptyTrigger ==
    \E n \in 1..Len(form.blocks) :
        /\ IsPairs(form.blocks[n])
        /\ ~FragBefore(n)
        /\ form.blocks[n].items = <<>>
        /\ n < Len(form.blocks) => Kinds[n + 1] \in {"path", "query", "frag"}

\* C9: a ';' or '?' trigger must be followed by at least one pair: an input
\* with the trigger followed by nothing or by the trigger of another block
\* fails, and in a successful parse a present method_params and a present
\* query each hold at least one entry.
C9_TriggerNeedsPair ==
    /\ Done /\ IsUrl /\ C9_EmptyTrigger => Failed
    /\ Parsed /\ TheDid.method_params # None => DOMAIN TheDid.method_params[1] # {}
    /\ Parsed /\ TheDid.query # None => DOMAIN TheDid.query[1] # {}

\* The input is did:<method>:<id> and a path block of segments, each a run
\* of zero or more of [A-Za-z0-9].
C10_Shape ==
    /\ IsUrl
    /\ Run(MethodClass, form.m) /\ Run(IdClass, form.id)
    /\ Len(form.blocks) = 1 /\ Kinds[1] = "path"
    /\ form.blocks[1].items # <<>>
    /\ \A k \in 1..Len(form.blocks[1].items) : All(AlphaNum, form.blocks[1].items[k].key)

\* C10: on did:<method>:<id> followed by a path block parse succeeds and
\* path is the sequence of all segments, the empty ones kept in place, also
\* when the empty segment comes directly after the triggering '/'.
C10_EmptySegmentsPreserved ==
    Done /\ C10_Shape => Parsed /\ TheDid.path = Some(Texts(form.blocks[1].items))

====
